---- MODULE Spec2Model ----
(***************************************************************************)
(* Model of the mutagen core of exaile: the format dispatcher File() and   *)
(* the dict-like facade FileType (src/mutagen/__init__.py).                *)
(*                                                                         *)
(* Two specifications share the module.  SpecFile runs one call of         *)
(* File(filename, options) statement by statement; SpecFT applies the      *)
(* FileType facade operations to one loaded file.  Each specification      *)
(* leaves the other component's variables untouched.                       *)
(***************************************************************************)
EXTENDS Integers, Sequences, FiniteSets, TLC

\* ---------------------------------------------------------------------
\* Bounds
\* ---------------------------------------------------------------------
NumKinds == 3      \* distinct candidate classes that may be listed in options
MaxScore == 2      \* scores returned by Kind.score range over 0..MaxScore
MaxKeys  == 1      \* tag keys are 1..MaxKeys
MaxVals  == 1      \* tag values are 1..MaxVals

\* A candidate class.  The number is the class object's place in Python 2's
\* ordering of class objects (by identity); it is unrelated to the place of
\* the class in the options list.
Kinds == 1..NumKinds

Scores == 0..MaxScore

Keys == 1..MaxKeys

Vals == 1..MaxVals

Paths == {"stored", "explicit"}

\* fileobj.read(128)
HeaderSize == 128

\* Lengths of the file that File opens: empty, and around the header size.
FileSizes == {0, HeaderSize - 1, HeaderSize, HeaderSize + 1}

VARIABLES
    \* ---- File(filename, options)
    options,    \* the candidate list, in registration order
    pc,         \* position inside File
    stream,     \* fileobj: "unopened", "open" or "closed"
    size,       \* length in bytes of the file at filename
    header,     \* number of bytes in header
    pos,        \* read position of fileobj
    results,    \* scores computed so far, in the order of options
    pending,    \* exception travelling through the try/finally
    trace,      \* what File has done so far, in order
    outcome,    \* what the caller observes
    \* ---- FileType facade
    tags,       \* self.tags: NoTags or a mapping key -> value
    store,      \* which object self.tags is: "none", the "loaded" or the "created" store
    disk,       \* tag data stored in the file at each path
    printable,  \* whether the format's tag class defines pprint
    last,       \* the last facade call and what the caller observed
    \* ---- MMBox
    children,   \* the widgets packed in the box, in box order
    removed,    \* self._removed_widgets
    packed,     \* every widget pack_start has accepted so far
    boxLast,    \* the last MMBox call and what the caller observed
    \* ---- MMProgressBar
    player,     \* self.player: its current track and playback state
    timer,      \* self._timer: None or the id of a timeout source
    sources,    \* the timeout sources registered with the main loop
    press,      \* self._press_event: None or the copied event
    fraction,   \* self.bar's fraction, in steps of 1/BarWidth
    text,       \* self.bar's text
    barLast,    \* the last MMProgressBar handler that ran
    \* ---- MMTrackSelector
    updating,   \* self._updating
    rows,       \* self.list: the track of each row
    active,     \* the active row of the combo box, 0 when there is none
    selLast     \* the last MMTrackSelector handler and the signals it fired

fileVars == <<options, pc, stream, size, header, pos, results, pending, trace, outcome>>

ftVars == <<tags, store, disk, printable, last>>

boxVars == <<children, removed, packed, boxLast>>

barVars == <<player, timer, sources, press, fraction, text, barLast>>

selVars == <<updating, rows, active, selLast>>

widgetVars == <<boxVars, barVars, selVars>>

vars == <<options, pc, stream, size, header, pos, results, pending, trace, outcome, tags, store, disk, printable, last, children, removed, packed, boxLast, player, timer, sources, press, fraction, text, barLast, updating, rows, active, selLast>>

\* ---------------------------------------------------------------------
\* Helpers
\* ---------------------------------------------------------------------
Range(s) == {s[i] : i \in 1..Len(s)}

\* Lists of distinct candidate classes, of every length up to NumKinds.
OptionLists ==
    UNION {{s \in [1..n -> Kinds] : \A i, j \in 1..n : i # j => s[i] # s[j]} : n \in 0..NumKinds}

\* One thing File did, with the header and the stream position at that time.
Event(e, k, st) == [ev |-> e, kind |-> k, stream |-> st, header |-> header, pos |-> pos]

Pending == [kind |-> "pending", of |-> 0]

ReturnedNone == [kind |-> "None", of |-> 0]

Instance(k) == [kind |-> "instance", of |-> k]

Raised(e) == [kind |-> "raised", of |-> e]

\* ---------------------------------------------------------------------
\* results = zip(results, options); results.sort(); results[-1]
\* ---------------------------------------------------------------------
\* Python compares the (score, Kind) tuples lexicographically: the score
\* first and, on equal scores, the class objects themselves.
TupleLess(a, b) == a[1] < b[1] \/ (a[1] = b[1] /\ a[2] < b[2])

zip(rs, opts) == [i \in 1..Len(rs) |-> <<rs[i], opts[i]>>]

RECURSIVE Insert(_, _)
Insert(x, s) ==
    IF s = <<>> THEN <<x>>
    ELSE IF TupleLess(x, Head(s)) THEN <<x>> \o s
    ELSE <<Head(s)>> \o Insert(x, Tail(s))

RECURSIVE sort(_)
sort(s) == IF s = <<>> THEN <<>> ELSE Insert(Head(s), sort(Tail(s)))

\* score, Kind = results[0]: the least tuple instead of the greatest
BestFirst(rs, opts) == LET sorted == sort(zip(rs, opts)) IN sorted[1]

\* score, Kind = results[-1]
Best(rs, opts) == LET sorted == sort(zip(rs, opts)) IN sorted[Len(sorted)]

\* ---------------------------------------------------------------------
\* File(filename, options)
\* ---------------------------------------------------------------------
FileInit ==
    /\ options \in OptionLists
    /\ pc = "start"
    /\ stream = "unopened"
    /\ size \in FileSizes
    /\ header = 0
    /\ pos = 0
    /\ results = <<>>
    /\ pending = "none"
    /\ trace = <<>>
    /\ outcome = Pending

\* "not options": the emptiness test of line 165
NeverEmpty(opts) == FALSE

NoCandidates(opts) == opts = <<>>

\* if not options: return None
CheckOptions ==
    /\ pc = "start"
    /\ IF NoCandidates(options)
       THEN /\ outcome' = ReturnedNone
            /\ pc' = "done"
       ELSE /\ outcome' = outcome
            /\ pc' = "open"
    /\ UNCHANGED <<ftVars, widgetVars, size>>
    /\ UNCHANGED <<options, stream, header, pos, results, pending, trace>>

\* fileobj = file(filename, "rb"); the open is outside the try block
OpenFile ==
    /\ pc = "open"
    /\ \/ /\ stream' = "open"
          /\ trace' = Append(trace, Event("open", 0, "open"))
          /\ pc' = "read"
          /\ outcome' = outcome
       \/ /\ outcome' = Raised("IOError")
          /\ pc' = "done"
          /\ UNCHANGED <<stream, trace>>
    /\ UNCHANGED <<ftVars, widgetVars, size>>
    /\ UNCHANGED <<options, header, pos, results, pending>>

\* a read without the limit: the whole file
WholeFile(sz) == sz

\* fileobj.read(128): at most 128 bytes, fewer when the file is shorter
read(sz) == IF sz < HeaderSize THEN sz ELSE HeaderSize

\* header = fileobj.read(128), closing the stream right after the read
ReadHeaderAndClose ==
    /\ pc = "read"
    /\ \/ /\ trace' = Append(trace, Event("read", 0, stream))
          /\ header' = read(size)
          /\ pos' = header'
          /\ stream' = "closed"
          /\ pc' = "score"
          /\ pending' = pending
       \/ /\ pending' = "IOError"
          /\ pc' = "finally"
          /\ UNCHANGED <<trace, stream, header, pos>>
    /\ UNCHANGED <<ftVars, widgetVars, size>>
    /\ UNCHANGED <<options, results, outcome>>

\* header = fileobj.read(128)
ReadHeader ==
    /\ pc = "read"
    /\ \/ /\ trace' = Append(trace, Event("read", 0, stream))
          /\ header' = read(size)
          /\ pos' = header'
          /\ pc' = "score"
          /\ pending' = pending
       \/ /\ pending' = "IOError"
          /\ pc' = "finally"
          /\ UNCHANGED <<trace, header, pos>>
    /\ UNCHANGED <<ftVars, widgetVars, size>>
    /\ UNCHANGED <<options, stream, results, outcome>>

\* Where a score call may leave the read position of the fileobj it is
\* given: where it was, or at the start of the file after seeking.
Seeks(p) == {p, 0}

\* a comprehension that stops at the first candidate sure of the file
ScoreNextShortCircuit ==
    /\ pc = "score"
    /\ Len(results) < Len(options)
    /\ LET Kind == options[Len(results) + 1] IN
       /\ trace' = Append(trace, Event("score", Kind, stream))
       /\ pos' \in Seeks(pos)
       /\ \/ \E s \in Scores :
               /\ results' = Append(results, s)
               /\ pending' = pending
               /\ pc' = IF Len(results) + 1 = Len(options) \/ s = MaxScore
                         THEN "finally" ELSE "score"
          \/ /\ pending' = "ScoreError"
             /\ pc' = "finally"
             /\ results' = results
    /\ UNCHANGED <<ftVars, widgetVars, size>>
    /\ UNCHANGED <<options, stream, header, outcome>>

\* one element of [Kind.score(filename, fileobj, header) for Kind in options]
ScoreNext ==
    /\ pc = "score"
    /\ Len(results) < Len(options)
    /\ LET Kind == options[Len(results) + 1] IN
       /\ trace' = Append(trace, Event("score", Kind, stream))
       /\ pos' \in Seeks(pos)
       /\ \/ \E s \in Scores :
               /\ results' = Append(results, s)
               /\ pending' = pending
               /\ pc' = IF Len(results) + 1 = Len(options) THEN "finally" ELSE "score"
          \/ /\ pending' = "ScoreError"
             /\ pc' = "finally"
             /\ results' = results
    /\ UNCHANGED <<ftVars, widgetVars, size>>
    /\ UNCHANGED <<options, stream, header, outcome>>

\* a close placed after the try block instead of in its finally clause
CloseAfterTry(st, pend) == IF pend = "none" THEN "closed" ELSE st

\* fileobj.close() runs whether or not an exception is travelling
CloseInFinally(st, pend) == "closed"

\* finally: fileobj.close()
Finally ==
    /\ pc = "finally"
    /\ stream' = CloseInFinally(stream, pending)
    /\ trace' = Append(trace, Event("close", 0, stream'))
    /\ IF pending = "none"
       THEN /\ pc' = "select"
            /\ outcome' = outcome
       ELSE /\ pc' = "done"
            /\ outcome' = Raised(pending)
    /\ UNCHANGED <<ftVars, widgetVars, size>>
    /\ UNCHANGED <<options, header, pos, results, pending>>

\* "score > 0", the gate of line 177
NonNegative(score) == score >= 0

AboveOne(score) == score > 1

Recognised(score) == score > 0

\* What the caller observes when Kind(filename) raises: line 177 has no
\* handler around the call, so the error leaves File unchanged.
CtorErrorSwallowed(Kind) == ReturnedNone

CtorError(Kind) == Raised("CtorError")

\* results = zip(results, options); results.sort(); score, Kind = results[-1]
\* if score > 0: return Kind(filename) else: return None
Select ==
    /\ pc = "select"
    /\ LET best == Best(results, options)
           score == best[1]
           Kind == best[2]
       IN IF Recognised(score)
          THEN \/ /\ trace' = Append(trace, Event("ctor", Kind, stream))
                  /\ outcome' = Instance(Kind)
               \/ /\ trace' = trace \o <<Event("ctor", Kind, stream), Event("ctorraise", Kind, stream)>>
                  /\ outcome' = CtorError(Kind)
          ELSE /\ outcome' = ReturnedNone
               /\ trace' = trace
    /\ pc' = "done"
    /\ UNCHANGED <<ftVars, widgetVars, size>>
    /\ UNCHANGED <<options, stream, header, pos, results, pending>>

FileNext ==
    \/ CheckOptions
    \/ OpenFile
    \/ ReadHeader
    \/ ScoreNext
    \/ Finally
    \/ Select

\* ---------------------------------------------------------------------
\* FileType: tags, the tag data on disk and the last call
\* ---------------------------------------------------------------------
\* tags = None
NoTags == [present |-> FALSE, map |-> <<>>]

\* tags is a Metadata, a dict from keys to values
Store(m) == [present |-> TRUE, map |-> m]

Maps == UNION {[D -> Vals] : D \in SUBSET Keys}

TagStates == {NoTags} \cup {Store(m) : m \in Maps}

Call(op, key, val, explicit, exc, ret, warned, calls) ==
    [op |-> op, key |-> key, val |-> val, explicit |-> explicit,
     exc |-> exc, ret |-> ret, warned |-> warned, calls |-> calls,
     keylist |-> {}, text |-> <<>>]

\* filename = self.filename unless the caller passed one
Target(explicit) == IF explicit THEN "explicit" ELSE "stored"

\* The facade is idle while File runs.
FTIdle ==
    /\ tags = NoTags
    /\ store = "none"
    /\ disk = [p \in Paths |-> NoTags]
    /\ printable = FALSE
    /\ last = Call("idle", 0, 0, FALSE, "none", 0, FALSE, <<>>)

\* File is idle while the facade is used.
FileIdle ==
    /\ options = <<>>
    /\ pc = "idle"
    /\ stream = "unopened"
    /\ size = 0
    /\ header = 0
    /\ pos = 0
    /\ results = <<>>
    /\ pending = "none"
    /\ trace = <<>>
    /\ outcome = Pending

\* A file loaded from its stored filename: tags is None when the file
\* carries no tag data, and holds the file's tag data otherwise.  The
\* constructor requires a filename (it warns when there is none), and load
\* is what sets filename, info and tags.
FTInit ==
    /\ tags \in TagStates
    /\ store = IF tags.present THEN "loaded" ELSE "none"
    /\ disk = [p \in Paths |-> IF p = "stored" THEN tags ELSE NoTags]
    /\ printable \in BOOLEAN
    /\ last = Call("load", 0, 0, FALSE, "none", 0, FALSE, <<>>)

\* add_tags() of the concrete format: tags becomes an empty tag store
add_tags == Store(<<>>)

\* __getitem__ that answers a default for an untagged file
getitemDefault(t, key) ==
    IF ~t.present THEN [exc |-> "none", ret |-> 0, calls |-> <<>>]
    ELSE IF key \in DOMAIN t.map
         THEN [exc |-> "none", ret |-> t.map[key], calls |-> <<"tags.__getitem__">>]
         ELSE [exc |-> "KeyError", ret |-> 0, calls |-> <<"tags.__getitem__">>]

\* if self.tags is None: raise KeyError, key
\* else: return self.tags[key]
getitem(t, key) ==
    IF ~t.present THEN [exc |-> "KeyError", ret |-> 0, calls |-> <<>>]
    ELSE IF key \in DOMAIN t.map
         THEN [exc |-> "none", ret |-> t.map[key], calls |-> <<"tags.__getitem__">>]
         ELSE [exc |-> "KeyError", ret |-> 0, calls |-> <<"tags.__getitem__">>]

\* a lookup that creates the tag store of an untagged file on the way
GetItemCreating ==
    /\ pc = "idle"
    /\ \E key \in Keys :
         LET r == getitem(tags, key) IN
         last' = Call("getitem", key, 0, FALSE, r.exc, r.ret, FALSE, r.calls)
    /\ tags' = IF tags.present THEN tags ELSE add_tags
    /\ disk' = disk
    /\ UNCHANGED <<store, printable, fileVars, widgetVars>>

GetItem ==
    /\ pc = "idle"
    /\ \E key \in Keys :
         LET r == getitem(tags, key) IN
         last' = Call("getitem", key, 0, FALSE, r.exc, r.ret, FALSE, r.calls)
    /\ UNCHANGED <<tags, disk>>
    /\ UNCHANGED <<store, printable, fileVars, widgetVars>>

\* self.tags[key] = value on a dict
setitem(m, key, value) ==
    [k \in DOMAIN m \cup {key} |-> IF k = key THEN value ELSE m[k]]

\* del(self.tags[key]) on a dict that holds key
delitem(m, key) == [k \in DOMAIN m \ {key} |-> m[k]]

\* a __setitem__ that also writes the tag data to the file
DiskWrittenThrough(d, t) == [d EXCEPT !["stored"] = t]

\* __setitem__ changes tags only: nothing is written until save is called
DiskAfterSetItem(d, t) == d

\* if self.tags is None: self.add_tags()
\* self.tags[key] = value
SetItem ==
    /\ pc = "idle"
    /\ \E key \in Keys, value \in Vals :
         IF ~tags.present
         THEN \/ /\ tags' = Store(setitem(add_tags.map, key, value))
                 /\ store' = "created"
                 /\ disk' = DiskAfterSetItem(disk, tags')
                 /\ last' = Call("setitem", key, value, FALSE, "none", 0, FALSE,
                                 <<"add_tags", "tags.__setitem__">>)
              \* FileType itself defines no add_tags: a format without one
              \* fails the call before anything is written
              \/ /\ last' = Call("setitem", key, value, FALSE, "AttributeError", 0, FALSE, <<>>)
                 /\ UNCHANGED <<tags, store, disk>>
         ELSE /\ tags' = Store(setitem(tags.map, key, value))
              /\ store' = store
              /\ disk' = DiskAfterSetItem(disk, tags')
              /\ last' = Call("setitem", key, value, FALSE, "none", 0, FALSE,
                              <<"tags.__setitem__">>)
    /\ UNCHANGED <<printable, fileVars, widgetVars>>

\* if self.tags is None: raise KeyError, key
\* else: del(self.tags[key])
DelItem ==
    /\ pc = "idle"
    /\ \E key \in Keys :
         IF ~tags.present
         THEN /\ last' = Call("delitem", key, 0, FALSE, "KeyError", 0, FALSE, <<>>)
              /\ tags' = tags
         ELSE IF key \in DOMAIN tags.map
         THEN /\ tags' = Store(delitem(tags.map, key))
              /\ last' = Call("delitem", key, 0, FALSE, "none", 0, FALSE, <<"tags.__delitem__">>)
         ELSE /\ last' = Call("delitem", key, 0, FALSE, "KeyError", 0, FALSE, <<"tags.__delitem__">>)
              /\ tags' = tags
    /\ disk' = disk
    /\ UNCHANGED <<store, printable, fileVars, widgetVars>>

\* tags.save(filename) of the concrete format: the tag data of the file at
\* filename becomes the in-memory mapping
tags_save(d, t, path) == [d EXCEPT ![path] = t]

\* tags.delete(filename) of the concrete format: the tag data is removed
\* from the file at filename
tags_delete(d, path) == [d EXCEPT ![path] = NoTags]

\* tags.delete of the concrete format also clears the in-memory container
tags_cleared(t) == Store(<<>>)

\* a save that delegates whatever tags is
AlwaysSavable(t) == TRUE

\* a save that tests the truth of tags, so that an empty store counts as none
NonEmptySavable(t) == t.present /\ t.map # <<>>

\* "self.tags is not None" in save
Savable(t) == t.present

\* if filename is None: filename = self.filename
\* else: warnings.warn(...)
\* if self.tags is not None: return self.tags.save(filename, **kwargs)
\* else: raise ValueError("no tags in file")
Save ==
    /\ pc = "idle"
    /\ \E explicit \in BOOLEAN :
         IF Savable(tags)
         THEN \/ /\ disk' = tags_save(disk, tags, Target(explicit))
                 /\ last' = Call("save", 0, 0, explicit, "none", 0, explicit, <<"tags.save">>)
              \/ /\ disk' = disk
                 /\ last' = Call("save", 0, 0, explicit, "IOError", 0, explicit, <<"tags.save">>)
         ELSE /\ disk' = disk
              /\ last' = Call("save", 0, 0, explicit, "ValueError", 0, explicit, <<>>)
    /\ tags' = tags
    /\ UNCHANGED <<store, printable, fileVars, widgetVars>>

\* a delete that never reaches the tag store
NeverDeletable(t) == FALSE

\* a delete that delegates whatever tags is
AlwaysDeletable(t) == TRUE

\* "self.tags is not None" in delete
Deletable(t) == t.present

\* a delete that also drops the tag store: self.tags = None afterwards
DeleteDroppingTags ==
    /\ pc = "idle"
    /\ \E explicit \in BOOLEAN :
         IF Deletable(tags)
         THEN \/ /\ disk' = tags_delete(disk, Target(explicit))
                 /\ tags' = NoTags
                 /\ store' = "none"
                 /\ last' = Call("delete", 0, 0, explicit, "none", 0, explicit, <<"tags.delete">>)
              \/ /\ disk[Target(explicit)].present
                 /\ UNCHANGED <<tags, store, disk>>
                 /\ last' = Call("delete", 0, 0, explicit, "IOError", 0, explicit, <<"tags.delete">>)
         ELSE /\ UNCHANGED <<tags, store, disk>>
              /\ last' = Call("delete", 0, 0, explicit, "none", 0, FALSE, <<>>)
    /\ UNCHANGED <<printable, fileVars, widgetVars>>

\* if self.tags is not None:
\*     if filename is None: filename = self.filename
\*     else: warnings.warn(...)
\*     return self.tags.delete(filename)
Delete ==
    /\ pc = "idle"
    /\ \E explicit \in BOOLEAN :
         IF Deletable(tags)
         THEN \/ /\ disk' = tags_delete(disk, Target(explicit))
                 /\ tags' = tags_cleared(tags)
                 /\ last' = Call("delete", 0, 0, explicit, "none", 0, explicit, <<"tags.delete">>)
              \* removing tag data from a file that holds some can fail;
              \* on a file that holds none tags.delete has nothing to write
              \/ /\ disk[Target(explicit)].present
                 /\ UNCHANGED <<tags, disk>>
                 /\ last' = Call("delete", 0, 0, explicit, "IOError", 0, explicit, <<"tags.delete">>)
         ELSE /\ UNCHANGED <<tags, disk>>
              /\ last' = Call("delete", 0, 0, explicit, "none", 0, FALSE, <<>>)
    /\ UNCHANGED <<store, printable, fileVars, widgetVars>>

\* a keys() that looks the keys up in tags whatever tags is
keysUnguarded(t) ==
    IF ~t.present THEN [exc |-> "AttributeError", keylist |-> {}, calls |-> <<>>]
    ELSE [exc |-> "none", keylist |-> DOMAIN t.map, calls |-> <<"tags.keys">>]

\* if self.tags is None: return []
\* else: return self.tags.keys()
keys(t) ==
    IF ~t.present THEN [exc |-> "none", keylist |-> {}, calls |-> <<>>]
    ELSE [exc |-> "none", keylist |-> DOMAIN t.map, calls |-> <<"tags.keys">>]

KeysCall ==
    /\ pc = "idle"
    /\ LET r == keys(tags) IN
       last' = [Call("keys", 0, 0, FALSE, r.exc, 0, FALSE, r.calls) EXCEPT !.keylist = r.keylist]
    /\ UNCHANGED <<tags, disk>>
    /\ UNCHANGED <<store, printable, fileVars, widgetVars>>

\* self.info.pprint(): the stream summary of a loaded file
info_pprint == <<"stream">>

\* tags.pprint() of the concrete format: one line per key, the empty
\* string for an empty tag store
tags_pprint(t) == IF t.map = <<>> THEN <<>> ELSE <<"tags">>

\* a pprint without the try/except around self.tags.pprint()
pprintUnguarded(t, canPrint) ==
    IF ~t.present \/ ~canPrint
    THEN [exc |-> "AttributeError", text |-> <<>>, calls |-> <<"info.pprint">>]
    ELSE LET tagtext == tags_pprint(t) IN
         [exc |-> "none",
          text |-> info_pprint \o (IF tagtext # <<>> THEN <<"\n">> \o tagtext ELSE <<>>),
          calls |-> <<"info.pprint", "tags.pprint">>]

\* stream = self.info.pprint()
\* try: tags = self.tags.pprint()
\* except AttributeError: return stream
\* else: return stream + ((tags and "\n" + tags) or "")
pprint(t, canPrint) ==
    IF ~t.present \/ ~canPrint
    THEN [exc |-> "none", text |-> info_pprint, calls |-> <<"info.pprint">>]
    ELSE LET tagtext == tags_pprint(t) IN
         [exc |-> "none",
          text |-> info_pprint \o (IF tagtext # <<>> THEN <<"\n">> \o tagtext ELSE <<>>),
          calls |-> <<"info.pprint", "tags.pprint">>]

PPrint ==
    /\ pc = "idle"
    /\ LET r == pprint(tags, printable) IN
       last' = [Call("pprint", 0, 0, FALSE, r.exc, 0, FALSE, r.calls) EXCEPT !.text = r.text]
    /\ UNCHANGED <<tags, disk>>
    /\ UNCHANGED <<store, printable, fileVars, widgetVars>>

FTNext ==
    \/ GetItem
    \/ SetItem
    \/ DelItem
    \/ KeysCall
    \/ Save
    \/ Delete
    \/ PPrint

\* ---------------------------------------------------------------------
\* MMBox: a box of MMWidgets that can hide and show its children
\* ---------------------------------------------------------------------

\* Number of MMWidget objects that exist
MaxWidgets == 3

Widgets == 1 .. MaxWidgets

\* An object that is not an MMWidget
NotAWidget == 0

\* MMWidget.id: every widget class fixes its id, so two instances of one
\* class carry the same id.
WidgetId(w) == (w + 1) \div 2

\* The ids a caller asks for; no widget carries id 0.
Ids == 0 .. WidgetId(MaxWidgets)

\* Most entries the two collections hold together
MaxHeld == MaxWidgets + 1

BoxState(c, r, e) == [children |-> c, removed |-> r, exc |-> e]

\* Index of the first widget of s with the given id, 0 when there is none
FirstWithId(s, id) ==
    IF \E i \in DOMAIN s : WidgetId(s[i]) = id
    THEN CHOOSE i \in DOMAIN s :
             /\ WidgetId(s[i]) = id
             /\ \A j \in 1 .. (i - 1) : WidgetId(s[j]) # id
    ELSE 0

\* list.remove(w): drops the first occurrence of w
list_remove(s, w) ==
    LET i == CHOOSE k \in DOMAIN s : s[k] = w /\ \A j \in 1 .. (k - 1) : s[j] # w
    IN  SubSeq(s, 1, i - 1) \o SubSeq(s, i + 1, Len(s))

\* gtk.HBox.pack_start: a widget that already has a parent is refused with
\* a warning, any other widget is appended to the box.
HBox_pack_start(c, child) ==
    IF child \in Range(c) THEN c ELSE Append(c, child)

\* gtk.HBox.remove
HBox_remove(c, child) == SelectSeq(c, LAMBDA x : x # child)

pack_start(b, child) ==
    IF child = NotAWidget
    THEN BoxState(b.children, b.removed, "TypeError")
    ELSE BoxState(HBox_pack_start(b.children, child), b.removed, "none")

show_child(b, id) ==
    LET i == FirstWithId(b.removed, id)
    IN  IF i = 0
        THEN BoxState(b.children, b.removed, "KeyError")
        ELSE BoxState(pack_start(b, b.removed[i]).children,
                      list_remove(b.removed, b.removed[i]), "none")

hide_child(b, id) ==
    LET i == FirstWithId(b.children, id)
    IN  IF i = 0
        THEN BoxState(b.children, b.removed, "KeyError")
        ELSE BoxState(HBox_remove(b.children, b.children[i]),
                      Append(b.removed, b.children[i]), "none")

\* for widget in todo: self.show_child(widget.id)
RECURSIVE ShowEach(_, _)
ShowEach(b, todo) ==
    IF todo = <<>> THEN b
    ELSE LET r == show_child(b, WidgetId(Head(todo)))
         IN  IF r.exc # "none" THEN r ELSE ShowEach(r, Tail(todo))

\* for widget in todo: self.hide_child(widget.id)
RECURSIVE HideEach(_, _)
HideEach(b, todo) ==
    IF todo = <<>> THEN b
    ELSE LET r == hide_child(b, WidgetId(Head(todo)))
         IN  IF r.exc # "none" THEN r ELSE HideEach(r, Tail(todo))

show_all_children(b) == ShowEach(b, b.children)

hide_all_children(b) == HideEach(b, b.children)

\* MMBox.__getitem__: the widget found, or KeyError
MMBox_getitem(b, id) ==
    LET i == FirstWithId(b.children \o b.removed, id)
    IN  IF i = 0 THEN [exc |-> "KeyError", ret |-> NotAWidget]
        ELSE [exc |-> "none", ret |-> (b.children \o b.removed)[i]]

Box == BoxState(children, removed, "none")

\* What the caller of an MMBox method observes; before is the set of
\* visible children when the call was made.
BoxCall(op, arg, r, ret) ==
    [op |-> op, arg |-> arg, exc |-> r.exc, ret |-> ret, before |-> Range(children)]

\* A new, empty box
BoxInit ==
    /\ children = <<>>
    /\ removed = <<>>
    /\ packed = {}
    /\ boxLast = [op |-> "init", arg |-> 0, exc |-> "none", ret |-> NotAWidget, before |-> {}]

\* No box is in use.
BoxIdle ==
    /\ children = <<>>
    /\ removed = <<>>
    /\ packed = {}
    /\ boxLast = [op |-> "idle", arg |-> 0, exc |-> "none", ret |-> NotAWidget, before |-> {}]

BoxStep(op, arg, r, ret) ==
    /\ children' = r.children
    /\ removed' = r.removed
    /\ boxLast' = BoxCall(op, arg, r, ret)

PackStart ==
    /\ Len(children) + Len(removed) < MaxHeld
    /\ \E child \in Widgets \cup {NotAWidget} :
          /\ BoxStep("pack_start", child, pack_start(Box, child), NotAWidget)
          /\ packed' = IF child = NotAWidget THEN packed ELSE packed \cup {child}
    /\ UNCHANGED <<fileVars, ftVars, barVars, selVars>>

ShowChild ==
    /\ \E id \in Ids : BoxStep("show_child", id, show_child(Box, id), NotAWidget)
    /\ UNCHANGED <<packed, fileVars, ftVars, barVars, selVars>>

HideChild ==
    /\ \E id \in Ids : BoxStep("hide_child", id, hide_child(Box, id), NotAWidget)
    /\ UNCHANGED <<packed, fileVars, ftVars, barVars, selVars>>

ShowAllChildren ==
    /\ BoxStep("show_all_children", 0, show_all_children(Box), NotAWidget)
    /\ UNCHANGED <<packed, fileVars, ftVars, barVars, selVars>>

HideAllChildren ==
    /\ BoxStep("hide_all_children", 0, hide_all_children(Box), NotAWidget)
    /\ UNCHANGED <<packed, fileVars, ftVars, barVars, selVars>>

BoxGetItem ==
    /\ \E id \in Ids :
          boxLast' = BoxCall("getitem", id, MMBox_getitem(Box, id), MMBox_getitem(Box, id).ret)
    /\ UNCHANGED <<children, removed, packed, fileVars, ftVars, barVars, selVars>>

BoxNext ==
    \/ PackStart
    \/ ShowChild
    \/ HideChild
    \/ ShowAllChildren
    \/ HideAllChildren
    \/ BoxGetItem

\* ---------------------------------------------------------------------
\* MMProgressBar: a progress bar that updates itself once a second
\* ---------------------------------------------------------------------

\* Allocated width of the bar, in pointer steps
BarWidth == 2

\* event.x of a pointer event; the pointer may be outside the bar
Pointer == (0 - 1) .. (BarWidth + 1)

\* event.button
Buttons == {1, 3}

\* player.get_progress(), in steps of 1/BarWidth
Progress == 0 .. BarWidth

\* self._timer is None
NoTimer == 0

\* self._press_event is None
NoEvent == <<>>

\* player.current is None
NoTrack == [track |-> FALSE, local |-> FALSE, length |-> FALSE, mode |-> "stopped"]

\* The player: whether there is a current track, whether it is local,
\* whether it has a '__length', and is_paused() / is_playing().
PlayerStates ==
    {NoTrack} \cup [track : {TRUE}, local : BOOLEAN, length : BOOLEAN,
                    mode : {"playing", "paused", "stopped"}]

\* Bar text: '%d:%02d / %d:%02d'
TimeText == "time"

BarState(t, s, f, x, e) ==
    [timer |-> t, sources |-> s, fraction |-> f, text |-> x, exc |-> e]

Bar == BarState(timer, sources, fraction, text, "none")

\* gobject.timeout_add: registers a new source and returns its id
timeout_add(s) ==
    CHOOSE n \in 1 .. (Cardinality(s) + 1) :
        /\ n \notin s
        /\ \A m \in 1 .. (n - 1) : m \in s

\* gobject.source_remove
source_remove(s, id) == s \ {id}

\* enable_timer that registers a timeout whether or not one is running
enable_timerUnguarded(b) ==
    [b EXCEPT !.timer = timeout_add(b.sources),
              !.sources = b.sources \cup {timeout_add(b.sources)}]

enable_timer(b) ==
    IF b.timer # NoTimer THEN b
    ELSE [b EXCEPT !.timer = timeout_add(b.sources),
                   !.sources = b.sources \cup {timeout_add(b.sources)}]

disable_timer(b) ==
    IF b.timer = NoTimer THEN b
    ELSE [b EXCEPT !.timer = NoTimer,
                   !.sources = source_remove(b.sources, b.timer)]

\* self.bar.set_fraction(f); self.bar.set_text(x)
Shown(b, f, x) == [b EXCEPT !.fraction = f, !.text = x]

update_state(b, p, progress) ==
    IF ~p.track THEN Shown(b, 0, "Not Playing")
    ELSE IF p.mode = "paused" THEN Shown(disable_timer(b), b.fraction, TimeText)
    ELSE IF p.mode = "playing"
         THEN IF p.local /\ p.length
              THEN Shown(enable_timer(b), progress, TimeText)
              ELSE Shown(disable_timer(b), 0, "Streaming...")
         ELSE Shown(b, 0, TimeText)

\* update_state returns True, which keeps its timeout registered
update_state_result == TRUE

\* event.x = float(max(0, event.x)); event.x = float(min(event.x, hi))
Clamp(x, hi) ==
    LET a == IF x < 0 THEN 0 ELSE x
    IN  IF a < hi THEN a ELSE hi

\* The handler that ran, what it raised, self._timer when it started, and
\* whether it emitted 'track-seeked'
BarCall(op, e, seeked) == [op |-> op, exc |-> e, before |-> timer, seeked |-> seeked]

BarStep(op, r, seeked) ==
    /\ timer' = r.timer
    /\ sources' = r.sources
    /\ fraction' = r.fraction
    /\ text' = r.text
    /\ barLast' = BarCall(op, r.exc, seeked)

\* __init__: no timer, no press event, then update_state()
BarInit ==
    /\ player \in PlayerStates
    /\ press = NoEvent
    /\ \E progress \in Progress :
          LET r == update_state(BarState(NoTimer, {}, 0, "", "none"), player, progress)
          IN  /\ timer = r.timer
              /\ sources = r.sources
              /\ fraction = r.fraction
              /\ text = r.text
    /\ barLast = [op |-> "init", exc |-> "none", before |-> NoTimer, seeked |-> FALSE]

\* No progress bar is in use.
BarIdle ==
    /\ player = NoTrack
    /\ timer = NoTimer
    /\ sources = {}
    /\ press = NoEvent
    /\ fraction = 0
    /\ text = ""
    /\ barLast = [op |-> "idle", exc |-> "none", before |-> NoTimer, seeked |-> FALSE]

\* The player starts, pauses, resumes or ends, and reports it.
on_playback_state_change ==
    /\ player' \in PlayerStates
    /\ \E progress \in Progress :
          BarStep("on_playback_state_change", update_state(Bar, player', progress), FALSE)
    /\ UNCHANGED <<press, fileVars, ftVars, boxVars, selVars>>

\* The main loop runs a registered timeout: update_state is the callback,
\* and the source stays registered when the callback returns True.
TimerTick ==
    /\ \E src \in sources, progress \in Progress :
          LET r == update_state(Bar, player, progress)
          IN  BarStep("tick", IF update_state_result THEN r
                              ELSE [r EXCEPT !.sources = source_remove(r.sources, src)],
                      FALSE)
    /\ UNCHANGED <<player, press, fileVars, ftVars, boxVars, selVars>>

on_button_press ==
    /\ \E x \in Pointer, button \in Buttons :
          press' = IF ~player.track THEN press
                   ELSE IF ~player.local /\ ~player.length THEN press
                   ELSE IF button = 1 THEN <<x>>
                   ELSE press
    /\ barLast' = BarCall("on_button_press", "none", FALSE)
    /\ UNCHANGED <<player, timer, sources, fraction, text, fileVars, ftVars, boxVars, selVars>>

on_button_release ==
    /\ \E x \in Pointer :
          IF press = NoEvent
          THEN /\ BarStep("on_button_release", Bar, FALSE)
               /\ press' = press
          ELSE /\ BarStep("on_button_release",
                          enable_timer([Bar EXCEPT !.fraction = Clamp(x, BarWidth - 1)]),
                          TRUE)
               /\ press' = NoEvent
    /\ UNCHANGED <<player, fileVars, ftVars, boxVars, selVars>>

on_motion_notify ==
    /\ \E x \in Pointer :
          IF press = NoEvent \/ Clamp(x, BarWidth) = press[1]
          THEN BarStep("on_motion_notify", Bar, FALSE)
          ELSE IF ~player.track
               THEN BarStep("on_motion_notify",
                            [disable_timer(Bar) EXCEPT !.exc = "AttributeError"], FALSE)
               ELSE BarStep("on_motion_notify",
                            Shown(disable_timer(Bar), Clamp(x, BarWidth), "Seeking"), FALSE)
    /\ UNCHANGED <<player, press, fileVars, ftVars, boxVars, selVars>>

EnableTimer ==
    /\ BarStep("enable_timer", enable_timer(Bar), FALSE)
    /\ UNCHANGED <<player, press, fileVars, ftVars, boxVars, selVars>>

DisableTimer ==
    /\ BarStep("disable_timer", disable_timer(Bar), FALSE)
    /\ UNCHANGED <<player, press, fileVars, ftVars, boxVars, selVars>>

BarNext ==
    \/ on_playback_state_change
    \/ TimerTick
    \/ on_button_press
    \/ on_button_release
    \/ on_motion_notify
    \/ EnableTimer
    \/ DisableTimer

\* ---------------------------------------------------------------------
\* MMTrackSelector: a combo box that follows the current playlist
\* ---------------------------------------------------------------------

\* Number of distinct tracks, and the longest playlist
MaxTracks == 2

Tracks == 1 .. MaxTracks

\* playlist.get_current() is None
NoCurrent == 0

\* The track lists a playlist event carries; a track may appear twice.
TrackLists == UNION {[1 .. n -> Tracks] : n \in 0 .. MaxTracks}

\* No row is active.
NoRow == 0

SelState(u, r, a, g, e) ==
    [updating |-> u, rows |-> r, active |-> a, signals |-> g, exc |-> e]

Sel == SelState(updating, rows, active, <<>>, "none")

\* on_change that hands every 'changed' signal to the callback
on_changeUnguarded(s) ==
    [s EXCEPT !.signals = Append(s.signals, [updating |-> s.updating, invoked |-> TRUE])]

\* on_change, the handler of 'changed': each signal is logged with the
\* flag it found and whether self._changed_callback was invoked.
on_change(s) ==
    [s EXCEPT !.signals = Append(s.signals, [updating |-> s.updating, invoked |-> ~s.updating])]

\* gtk.ComboBox.set_active_iter: 'changed' is emitted when the active row
\* changes.
set_active_iter(s, i) ==
    IF s.active = i THEN s ELSE on_change([s EXCEPT !.active = i])

\* self.list.clear(): the active row goes with the rows; emits says
\* whether the combo box reports that with a 'changed' signal.
list_clear(s, emits) ==
    IF s.active = NoRow THEN [s EXCEPT !.rows = <<>>]
    ELSE IF emits THEN on_change([s EXCEPT !.rows = <<>>, !.active = NoRow])
    ELSE [s EXCEPT !.rows = <<>>, !.active = NoRow]

\* The loop of update_track_list from track i on, and the reset of the
\* flag after it; fails is the position of a track whose formatting
\* raises, 0 when every track can be formatted.
RECURSIVE Populate(_, _, _, _, _)
Populate(s, tracks, current, fails, i) ==
    IF i > Len(tracks) THEN [s EXCEPT !.updating = FALSE]
    ELSE IF fails = i THEN [s EXCEPT !.exc = "ValueError"]
    ELSE LET a == [s EXCEPT !.rows = Append(s.rows, tracks[i])]
         IN  Populate(IF tracks[i] = current THEN set_active_iter(a, Len(a.rows)) ELSE a,
                      tracks, current, fails, i + 1)

update_track_list(s, tracks, current, emits, fails) ==
    Populate(list_clear([s EXCEPT !.updating = TRUE], emits), tracks, current, fails, 1)

\* Index of the first row that holds the track, 0 when there is none
FirstRow(r, track) ==
    IF \E i \in DOMAIN r : r[i] = track
    THEN CHOOSE i \in DOMAIN r : r[i] = track /\ \A j \in 1 .. (i - 1) : r[j] # track
    ELSE NoRow

set_active_track(s, track) ==
    LET u == [s EXCEPT !.updating = TRUE]
        i == FirstRow(u.rows, track)
    IN  [(IF i = NoRow THEN u ELSE set_active_iter(u, i)) EXCEPT !.updating = FALSE]

SelStep(op, r) ==
    /\ updating' = r.updating
    /\ rows' = r.rows
    /\ active' = r.active
    /\ selLast' = [op |-> op, exc |-> r.exc, signals |-> r.signals]

\* __init__ fills the list before 'changed' is connected to on_change.
SelInit ==
    /\ \E tracks \in TrackLists, current \in Tracks \cup {NoCurrent} :
          LET r == update_track_list(SelState(FALSE, <<>>, NoRow, <<>>, "none"),
                                     tracks, current, FALSE, 0)
          IN  /\ updating = r.updating
              /\ rows = r.rows
              /\ active = r.active
    /\ selLast = [op |-> "init", exc |-> "none", signals |-> <<>>]

\* No track selector is in use.
SelIdle ==
    /\ updating = FALSE
    /\ rows = <<>>
    /\ active = NoRow
    /\ selLast = [op |-> "idle", exc |-> "none", signals |-> <<>>]

\* A playlist event that makes the selector rewrite its list
UpdateEvent(op) ==
    \E tracks \in TrackLists, current \in Tracks \cup {NoCurrent}, emits \in BOOLEAN :
        \E fails \in 0 .. Len(tracks) :
            SelStep(op, update_track_list(Sel, tracks, current, emits, fails))

on_tracks_added ==
    /\ UpdateEvent("on_tracks_added")
    /\ UNCHANGED <<fileVars, ftVars, boxVars, barVars>>

on_tracks_removed ==
    /\ UpdateEvent("on_tracks_removed")
    /\ UNCHANGED <<fileVars, ftVars, boxVars, barVars>>

on_tracks_reordered ==
    /\ UpdateEvent("on_tracks_reordered")
    /\ UNCHANGED <<fileVars, ftVars, boxVars, barVars>>

on_playlist_current_changed ==
    /\ \E track \in Tracks \cup {NoCurrent} :
          SelStep("on_playlist_current_changed", set_active_track(Sel, track))
    /\ UNCHANGED <<fileVars, ftVars, boxVars, barVars>>

\* The user picks another row: the combo box emits 'changed'.  A callback
\* that is invoked may make the player report a new current track before
\* it returns, which runs set_active_track inside the callback.
UserChange ==
    /\ \E row \in DOMAIN rows, reenters \in BOOLEAN, track \in Tracks :
          /\ row # active
          /\ LET r == on_change([Sel EXCEPT !.active = row])
             IN  SelStep("user_change",
                         IF r.signals[1].invoked /\ reenters
                         THEN set_active_track(r, track) ELSE r)
    /\ UNCHANGED <<fileVars, ftVars, boxVars, barVars>>

SelNext ==
    \/ on_tracks_added
    \/ on_tracks_removed
    \/ on_tracks_reordered
    \/ on_playlist_current_changed
    \/ UserChange

\* No widget is in use while File or the facade runs.
WidgetsIdle == BoxIdle /\ BarIdle /\ SelIdle

\* One call of File, the facade idle.
InitFile == FileInit /\ FTIdle /\ WidgetsIdle

\* One loaded file, File idle.
InitFT == FTInit /\ FileIdle /\ WidgetsIdle

\* One box, everything else idle.
InitBox == BoxInit /\ BarIdle /\ SelIdle /\ FileIdle /\ FTIdle

\* One progress bar, everything else idle.
InitBar == BarInit /\ BoxIdle /\ SelIdle /\ FileIdle /\ FTIdle

\* One track selector, everything else idle.
InitSel == SelInit /\ BoxIdle /\ BarIdle /\ FileIdle /\ FTIdle

SpecFile == InitFile /\ [][FileNext]_vars

SpecFT == InitFT /\ [][FTNext]_vars

SpecBox == InitBox /\ [][BoxNext]_vars

SpecBar == InitBar /\ [][BarNext]_vars

SpecSel == InitSel /\ [][SelNext]_vars

\* ---------------------------------------------------------------------
\* Properties of File
\* ---------------------------------------------------------------------
EventsOf(e) == {i \in 1..Len(trace) : trace[i].ev = e}

CtorKinds == {trace[i].kind : i \in EventsOf("ctor")}

\* File ran to its end with every candidate scored.
Scored == pc = "done" /\ options # <<>> /\ Len(results) = Len(options)

TopScore == CHOOSE s \in Range(results) : \A t \in Range(results) : t <= s

\* Positions of options whose score is the maximum.
TopPositions == {i \in 1..Len(results) : results[i] = TopScore}

LastTop == CHOOSE i \in TopPositions : \A j \in TopPositions : j <= i

\* C1: when several candidates share a positive maximum score, the
\* constructor that File invokes is the one of the candidate registered
\* last among them.
C1_LaterRegisteredWinsTie ==
    (Scored /\ TopScore > 0 /\ Cardinality(TopPositions) >= 2)
        => CtorKinds = {options[LastTop]}

\* C2: for a non-empty candidate list whose scores are all 0, File returns
\* None and invokes no constructor.
C2_AllZeroUnresolved ==
    (Scored /\ \A i \in 1..Len(results) : results[i] = 0)
        => outcome = ReturnedNone /\ EventsOf("ctor") = {}

C2_Witness ==
    /\ Scored
    /\ Len(options) >= 2
    /\ \A i \in 1..Len(results) : results[i] = 0
    /\ outcome = ReturnedNone

\* C3: a single candidate scoring s > 0 is the one constructed, whatever
\* the value of s, and File hands the caller what that constructor yields:
\* its instance, or its error when it raises.
C3_SinglePositiveResolves ==
    (Scored /\ Len(options) = 1 /\ results[1] > 0)
        => /\ CtorKinds = {options[1]}
           /\ Cardinality(EventsOf("ctor")) = 1
           /\ EventsOf("ctorraise") = {} => outcome = Instance(options[1])

C3_Witness ==
    /\ Scored
    /\ Len(options) = 1
    /\ results[1] = 1
    /\ outcome = Instance(options[1])

\* C4: with an empty candidate list File returns None without opening the
\* file and without scoring anything.
C4_EmptyListNoIO ==
    options = <<>>
        => /\ stream = "unopened"
           /\ trace = <<>>
           /\ results = <<>>
           /\ pc \in {"start", "done"}
           /\ pc = "done" => outcome = ReturnedNone

C4_Witness == options = <<>> /\ pc = "done" /\ outcome = ReturnedNone

\* C5: when the winner's constructor raises, the caller observes that
\* error; exactly one constructor was invoked, nothing ran after it, and
\* every candidate was scored exactly once.
C5_NoFallback ==
    EventsOf("ctorraise") # {}
        => /\ outcome = Raised("CtorError")
           /\ pc = "done"
           /\ Cardinality(EventsOf("ctor")) = 1
           /\ Cardinality(EventsOf("score")) = Len(options)
           /\ trace[Len(trace)].ev = "ctorraise"
           /\ trace[Len(trace) - 1].ev = "ctor"

C5_Witness ==
    /\ EventsOf("ctorraise") # {}
    /\ Len(options) >= 2
    /\ Cardinality({i \in 1..Len(results) : results[i] > 0}) >= 2
    /\ outcome = Raised("CtorError")

\* C6 as stated: the stream is already closed whenever a score function
\* runs.
C6_ClosedWhileScoring ==
    \A i \in EventsOf("score") : trace[i].stream = "closed"

\* C6 amended: the stream is open whenever a score function runs, and it
\* is closed only after the last score call, before any constructor.
C6_OpenWhileScoring ==
    /\ \A i \in EventsOf("score") : trace[i].stream = "open"
    /\ \A c \in EventsOf("close") : \A i \in EventsOf("score") : i < c
    /\ \A c \in EventsOf("close") : \A k \in EventsOf("ctor") : c < k

C6_Witness ==
    /\ Cardinality(EventsOf("score")) >= 2
    /\ EventsOf("close") # {}
    /\ EventsOf("ctor") # {}

\* C7: once the file was opened, File never ends with the stream open,
\* whether the read failed, a score call raised or scoring completed; and
\* the stream is closed when the winner's constructor is invoked.
C7_StreamClosedOnExit ==
    /\ pc = "done" => stream # "open"
    /\ (pc = "done" /\ EventsOf("open") # {}) => stream = "closed"
    /\ \A k \in EventsOf("ctor") : trace[k].stream = "closed"

C7_Witness ==
    /\ pc = "done"
    /\ outcome = Raised("ScoreError")
    /\ EventsOf("score") # {}
    /\ stream = "closed"

\* ---------------------------------------------------------------------
\* Properties of FileType
\* ---------------------------------------------------------------------
\* C8: __setitem__(key, value) on a file whose tags is None calls
\* add_tags() and then writes into the new store: when the call succeeds
\* tags is non-null, __getitem__(key) returns value, save is not invoked
\* and the tag data on disk is unchanged.
C8_SetItemCreatesTags ==
    [][(~tags.present /\ last'.op = "setitem" /\ last'.exc = "none")
        => /\ tags'.present
           /\ getitem(tags', last'.key) = [exc |-> "none", ret |-> last'.val,
                                            calls |-> <<"tags.__getitem__">>]
           /\ last'.calls = <<"add_tags", "tags.__setitem__">>
           /\ disk' = disk]_vars

C8_Witness ==
    /\ last.op = "setitem"
    /\ last.exc = "none"
    /\ last.calls = <<"add_tags", "tags.__setitem__">>
    /\ tags = Store(setitem(<<>>, last.key, last.val))
    /\ ~disk["stored"].present

\* C9: save() on a file whose tags is None raises ValueError, invokes no
\* tag-store save, leaves the tag data on disk unchanged and leaves tags
\* None.
C9_SaveWithoutTags ==
    [][(~tags.present /\ last'.op = "save")
        => /\ last'.exc = "ValueError"
           /\ last'.calls = <<>>
           /\ disk' = disk
           /\ tags' = NoTags]_vars

C9_Witness ==
    /\ last.op = "save"
    /\ last.exc = "ValueError"
    /\ ~tags.present

\* C10: __getitem__(key) and __delitem__(key) on a file whose tags is None
\* raise KeyError for every key and leave tags None; no tag store is
\* created and none is consulted.
C10_UntaggedKeyError ==
    [][(~tags.present /\ last'.op \in {"getitem", "delitem"})
        => /\ last'.exc = "KeyError"
           /\ last'.calls = <<>>
           /\ tags' = NoTags
           /\ disk' = disk]_vars

C10_Witness ==
    /\ last.op = "getitem"
    /\ last.key = MaxKeys
    /\ last.exc = "KeyError"
    /\ ~tags.present

\* C11: keys() on a file whose tags is None returns an empty sequence and
\* does not raise; when tags is non-null it returns exactly the keys of
\* the tag store.
C11_KeysOfUntagged ==
    last.op = "keys"
        => /\ last.exc = "none"
           /\ ~tags.present => (last.keylist = {} /\ last.calls = <<>>)
           /\ tags.present => last.keylist = DOMAIN tags.map

C11_Witness ==
    /\ last.op = "keys"
    /\ ~tags.present
    /\ last.keylist = {}
    /\ last.exc = "none"

\* C12: after delete() returns, keys() is empty; a second delete() changes
\* neither the in-memory keys nor the tag data on disk and raises nothing.
C12_DeleteIdempotent ==
    [][/\ (last'.op = "delete" /\ ~last'.explicit /\ last'.exc = "none")
            => (keys(tags').keylist = {} /\ ~disk'["stored"].present)
       /\ (/\ last.op = "delete" /\ ~last.explicit /\ last.exc = "none"
           /\ last'.op = "delete" /\ ~last'.explicit)
            => (tags' = tags /\ disk' = disk /\ last'.exc = "none")]_vars

C12_Witness ==
    /\ last.op = "delete"
    /\ ~last.explicit
    /\ last.exc = "none"
    /\ last.calls = <<"tags.delete">>
    /\ tags = Store(<<>>)
    /\ ~disk["stored"].present

\* C13: every save or delete that passes an explicit filename emits the
\* deprecation warning, whatever tags is, and otherwise does what the call
\* without a filename does, on the explicit path instead of the stored one.
C13_ExplicitFilenameWarns ==
    [][(last'.op \in {"save", "delete"} /\ last'.explicit)
        => /\ last'.warned
           /\ disk'["stored"] = disk["stored"]
           /\ (last'.op = "save" /\ ~tags.present) => last'.exc = "ValueError"
           /\ (last'.op = "save" /\ tags.present) => last'.calls = <<"tags.save">>
           /\ (last'.op = "delete" /\ ~tags.present) => (last'.exc = "none" /\ tags' = tags)
           /\ (last'.op = "delete" /\ tags.present) => last'.calls = <<"tags.delete">>]_vars

\* C14: pprint() does not raise whatever tags is: with tags None, or with a
\* tag store that has no pprint, it returns the stream summary alone; with
\* a tag store that prints a non-empty summary it returns the stream
\* summary, a newline and the tag summary.
C14_PPrintNeverRaises ==
    last.op = "pprint"
        => /\ last.exc = "none"
           /\ (~tags.present \/ ~printable) => last.text = info_pprint
           /\ (tags.present /\ printable /\ tags_pprint(tags) # <<>>)
                => last.text = info_pprint \o <<"\n">> \o tags_pprint(tags)

C14_Witness ==
    /\ last.op = "pprint"
    /\ tags.present
    /\ tags.map # <<>>
    /\ ~printable
    /\ last.exc = "none"
    /\ last.text = info_pprint

\* C15: __getitem__, keys and pprint leave tags and the tag data on disk
\* as they were and call none of save, delete and add_tags; the only
\* operation after which tags is non-null where it was None is __setitem__.
C15_ReadsDoNotMutate ==
    [][/\ last'.op \in {"getitem", "keys", "pprint"}
            => /\ tags' = tags
               /\ disk' = disk
               /\ Range(last'.calls) \cap {"add_tags", "tags.save", "tags.delete"} = {}
       /\ (~tags.present /\ tags'.present) => last'.op = "setitem"]_vars

C15_Witness ==
    /\ last.op = "getitem"
    /\ last.exc = "KeyError"
    /\ ~tags.present

\* C16: delete() on a file whose tags is None raises nothing, calls no
\* tag-store delete, leaves the tag data on disk alone and leaves tags
\* None.
C16_DeleteWithoutTags ==
    [][(~tags.present /\ last'.op = "delete")
        => /\ last'.exc = "none"
           /\ last'.calls = <<>>
           /\ disk' = disk
           /\ tags' = NoTags]_vars

C16_Witness ==
    /\ last.op = "delete"
    /\ last.explicit
    /\ last.exc = "none"
    /\ last.calls = <<>>
    /\ ~tags.present

\* C20: save raises ValueError exactly when tags is None; with a tag
\* store, an empty one included, it calls tags.save once on the stored
\* filename, or on the explicit one when given, and raises no usage error.
C20_SaveRaisesIffNoTags ==
    [][last'.op = "save"
        => /\ (last'.exc = "ValueError") <=> ~tags.present
           /\ tags.present
                => /\ last'.calls = <<"tags.save">>
                   /\ tags' = tags
                   /\ last'.exc = "none"
                        => disk' = tags_save(disk, tags, Target(last'.explicit))]_vars

C20_Witness ==
    /\ last.op = "save"
    /\ tags = Store(<<>>)
    /\ last.exc = "none"
    /\ last.calls = <<"tags.save">>
    /\ disk["stored"] = Store(<<>>)

\* ---------------------------------------------------------------------
\* Further properties of File
\* ---------------------------------------------------------------------
\* The score calls made so far, in the order they were made.
ScoreCalls == SelectSeq(trace, LAMBDA e : e.ev = "score")

\* C17: for a non-empty candidate list, a constructor is invoked exactly
\* when the maximum score is > 0, File returns an instance only then (and
\* None when the maximum is 0), and the candidate constructed has a score
\* at least as great as every other candidate's.
C17_ResolvesIffPositive ==
    /\ (pc = "done" /\ outcome.kind = "instance") => Scored
    /\ Scored
        => /\ (EventsOf("ctor") # {}) <=> (TopScore > 0)
           /\ (outcome.kind = "instance") => (TopScore > 0)
           /\ (TopScore > 0 /\ EventsOf("ctorraise") = {})
                => (outcome.kind = "instance" /\ CtorKinds = {outcome.of})
           /\ (TopScore = 0) => outcome = ReturnedNone
           /\ \A k \in CtorKinds :
                \E i \in 1..Len(options) :
                    /\ options[i] = k
                    /\ \A j \in 1..Len(options) : results[j] <= results[i]

C17_Witness ==
    /\ Scored
    /\ Len(options) >= 2
    /\ \E i, j \in 1..Len(results) : results[i] < results[j]
    /\ outcome.kind = "instance"

\* C18: the candidates are scored one after the other in registration
\* order, none of them twice and none skipped after a high score; at most
\* one constructor is invoked, and only once all of them are scored; when
\* a score call raises, no constructor is invoked.
C18_ScoreOnceInOrder ==
    /\ Len(ScoreCalls) <= Len(options)
    /\ \A i \in 1..Len(ScoreCalls) : ScoreCalls[i].kind = options[i]
    /\ Cardinality(EventsOf("ctor")) <= 1
    /\ \A c \in EventsOf("ctor") :
         /\ Len(ScoreCalls) = Len(options)
         /\ \A i \in EventsOf("score") : i < c
    /\ (pc = "select" \/ (pc = "done" /\ options # <<>> /\ outcome.kind \in {"None", "instance"}))
         => Len(ScoreCalls) = Len(options)
    /\ (pending = "ScoreError") => EventsOf("ctor") = {}

C18_Witness ==
    /\ pc = "done"
    /\ Len(options) >= 2
    /\ Len(ScoreCalls) = Len(options)
    /\ results[1] = MaxScore
    /\ Cardinality(EventsOf("ctor")) = 1

\* C19 as stated: what a score function receives depends on the path and
\* the header alone, whichever candidates were scored before it: the
\* header is the first 128 bytes at most, and no stream state that an
\* earlier score call could have changed reaches a later one.
C19_ScoringIsolated ==
    \A i \in EventsOf("score") :
        /\ trace[i].header = read(size)
        /\ trace[i].header <= HeaderSize
        /\ trace[i].stream = "closed" \/ trace[i].pos = trace[i].header

\* C19 amended: every score function receives the same header, the first
\* 128 bytes at most, and the one open stream File read it from; the first
\* candidate finds the stream right after the header, a later one finds it
\* where the earlier score calls left it.
C19_SharedStream ==
    /\ \A i \in EventsOf("score") :
         /\ trace[i].header = read(size)
         /\ trace[i].header <= HeaderSize
         /\ trace[i].stream = "open"
    /\ ScoreCalls # <<>> => ScoreCalls[1].pos = ScoreCalls[1].header
    /\ \A i \in 2..Len(ScoreCalls) : ScoreCalls[i].pos \in Seeks(ScoreCalls[i - 1].pos)

C19_Witness ==
    /\ size > HeaderSize
    /\ Len(ScoreCalls) >= 2
    /\ ScoreCalls[2].header = HeaderSize
    /\ ScoreCalls[2].pos # ScoreCalls[2].header

\* C21: add_tags() is called only by __setitem__ and only when tags is
\* None; once tags is non-null every facade operation leaves it non-null
\* and leaves self.tags the same store object.
C21_TagStoreStable ==
    [][/\ ("add_tags" \in Range(last'.calls)) => (last'.op = "setitem" /\ ~tags.present)
       /\ (store' # store) => (~tags.present /\ "add_tags" \in Range(last'.calls))
       /\ tags.present => (tags'.present /\ store' = store)
       /\ tags'.present <=> (store' # "none")]_vars

C21_Witness ==
    /\ store = "created"
    /\ last.op = "delete"
    /\ last.exc = "none"
    /\ last.calls = <<"tags.delete">>
    /\ tags.present

\* ---------------------------------------------------------------------
\* Properties of MMBox
\* ---------------------------------------------------------------------

\* C22: show_all_children() raises no KeyError, leaves _removed_widgets
\* empty and every widget that was hidden packed in the box again; called
\* right after hide_all_children() it restores the set of visible children.
C22_ShowAllRestores ==
    [][boxLast'.op = "show_all_children" =>
          /\ boxLast'.exc = "none"
          /\ removed' = <<>>
          /\ Range(removed) \subseteq Range(children')
          /\ (boxLast.op = "hide_all_children") => (Range(children') = boxLast.before)]_vars

\* Some hidden widget carries the id, and no visible child does.
HiddenId(id) ==
    /\ \E w \in Range(removed) : WidgetId(w) = id
    /\ \A w \in Range(children) : WidgetId(w) # id

\* Some visible child carries the id, and no hidden widget does.
VisibleId(id) ==
    /\ \E w \in Range(children) : WidgetId(w) = id
    /\ \A w \in Range(removed) : WidgetId(w) # id

\* C23: every widget ever packed is in exactly one of the visible children
\* and _removed_widgets, so MMBox[id] finds it; hide_child(id) followed by
\* show_child(id) leaves a widget of that id visible; hide_child of a
\* hidden id and show_child of a visible id raise KeyError and change
\* neither collection.
C23_Partition ==
    [][/\ \A w \in packed' : (w \in Range(children')) # (w \in Range(removed'))
       /\ \A w \in packed' :
             MMBox_getitem(BoxState(children', removed', "none"), WidgetId(w)).exc = "none"
       /\ (/\ boxLast.op = "hide_child"
           /\ boxLast.exc = "none"
           /\ boxLast'.op = "show_child"
           /\ boxLast'.arg = boxLast.arg)
          => /\ boxLast'.exc = "none"
             /\ \E w \in Range(children') : WidgetId(w) = boxLast'.arg
       /\ (boxLast'.op = "hide_child" /\ HiddenId(boxLast'.arg))
          => (boxLast'.exc = "KeyError" /\ UNCHANGED <<children, removed>>)
       /\ (boxLast'.op = "show_child" /\ VisibleId(boxLast'.arg))
          => (boxLast'.exc = "KeyError" /\ UNCHANGED <<children, removed>>)]_vars

\* ---------------------------------------------------------------------
\* Properties of MMProgressBar
\* ---------------------------------------------------------------------

\* C24: at most one timeout is registered, self._timer is not None exactly
\* when one is registered and then names it, and enable_timer and
\* disable_timer are idempotent.
C24_TimerInvariant ==
    /\ Cardinality(sources) <= 1
    /\ (timer # NoTimer) <=> (sources # {})
    /\ (timer # NoTimer) => (timer \in sources)
    /\ enable_timer(enable_timer(Bar)) = enable_timer(Bar)
    /\ disable_timer(disable_timer(Bar)) = disable_timer(Bar)
    /\ (timer # NoTimer) => (enable_timer(Bar) = Bar)
    /\ (timer = NoTimer) => (disable_timer(Bar) = Bar)

\* A press and a release while the timer runs: enable_timer is called
\* with a timeout already registered.
C24_Witness ==
    /\ barLast.op = "on_button_release"
    /\ barLast.seeked
    /\ barLast.before # NoTimer
    /\ press = NoEvent
    /\ sources = {timer}

\* ---------------------------------------------------------------------
\* Properties of MMTrackSelector
\* ---------------------------------------------------------------------

\* The handlers that rewrite the list or the selection
ProgrammaticOps ==
    {"on_tracks_added", "on_tracks_removed", "on_tracks_reordered",
     "on_playlist_current_changed"}

\* C25: no 'changed' signal fired while update_track_list or
\* set_active_track rewrites the list or the selection reaches the
\* callback; _updating is False once such an operation has returned, and
\* a user's change made while _updating is False does reach the callback.
C25_GuardedCallback ==
    [][/\ \A i \in DOMAIN selLast'.signals :
             selLast'.signals[i].updating => ~selLast'.signals[i].invoked
       /\ (selLast'.op \in ProgrammaticOps)
          => \A i \in DOMAIN selLast'.signals :
                 selLast'.signals[i].updating /\ ~selLast'.signals[i].invoked
       /\ (selLast'.op \in ProgrammaticOps /\ selLast'.exc = "none") => ~updating'
       /\ (selLast'.op = "user_change" /\ ~updating)
          => (selLast'.signals[1].invoked /\ ~updating')]_vars

\* A rewrite that fired 'changed' more than once and has returned.
C25_Witness ==
    /\ selLast.op = "on_tracks_reordered"
    /\ selLast.exc = "none"
    /\ Len(selLast.signals) >= 2
    /\ \A i \in DOMAIN selLast.signals : ~selLast.signals[i].invoked
    /\ ~updating
    /\ active # NoRow

====
